---- MODULE Spec2Model ----
(***************************************************************************)
(* Client side of agent-browser (cli/src/main.rs): the command translator  *)
(* parse_command, the daemon supervisor ensure_daemon, the transport       *)
(* client send_command, the renderer print_response and main, which runs   *)
(* them in sequence.  The daemon, the file system and the socket are the   *)
(* environment of the client.                                              *)
(***************************************************************************)
EXTENDS Integers, Sequences, FiniteSets, TLC

(***************************************************************************)
(* Bounds of the model.                                                    *)
(***************************************************************************)
\* longest token sequence handed to parse_command in SpecParse
MaxArgs == 3
\* number of concurrent CLI invocations of one session in SpecRace
NumClients == 2
\* clock ticks in one poll interval of 100 ms (SpecPoll, SpecSend)
TicksPerPoll == 2
\* longest error message in SpecJson, in characters
MaxMsgLen == 3
\* the longest command line of SpecArgs
MaxArgv == 3

(***************************************************************************)
(* Program constants.                                                      *)
(***************************************************************************)
\* for _ in 0..50
PollCount == 50
\* thread::sleep(Duration::from_millis(100))
PollIntervalMs == 100
\* set_read_timeout(Some(Duration::from_secs(30)))
ReadTimeoutSecs == 30

(***************************************************************************)
(* Values: Option<T> and serde_json::Value.                                *)
(***************************************************************************)
NoneV == [some |-> FALSE]
Some(v) == [some |-> TRUE, v |-> v]

JStr(s) == [t |-> "str", s |-> s]
JNum(n) == [t |-> "num", n |-> n]
JBool(b) == [t |-> "bool", b |-> b]
JNull == [t |-> "null"]

\* serde_json::Map::insert: the key is added or its value replaced
ObjInsert(o, key, val) == [k \in (DOMAIN o) \cup {key} |-> IF k = key THEN val ELSE o[k]]

(***************************************************************************)
(* Strings.  Tokens are strings; str::starts_with is decided by            *)
(* concatenation over the tails that occur in the lexicon.                 *)
(***************************************************************************)
Tails == {"", "s://x.com", "://a.com", "json", "help", "interactive", "compact",
          "depth", "selector", "with-deps", "frob"}
StartsWith(s, p) == \E k \in Tails : s = p \o k

\* str::parse::<i32>: optional sign, decimal digits, within the i32 range
DecStr == <<"0", "1", "2", "3", "4", "5", "6", "7", "8", "9">>
I32Lexicon == {<<DecStr[n + 1], n>> : n \in 0..9} \cup
              {<<"+3", 3>>, <<"-1", 0 - 1>>, <<"007", 7>>, <<"500", 500>>,
               <<"2147483647", 2147483647>>}
ParseI32(s) == IF \E e \in I32Lexicon : e[1] = s
               THEN Some((CHOOSE e \in I32Lexicon : e[1] = s)[2])
               ELSE NoneV

\* str::parse::<u64>: optional plus sign, decimal digits, no minus sign
U64Lexicon == {<<DecStr[n + 1], n>> : n \in 0..9} \cup
              {<<"+3", 3>>, <<"007", 7>>, <<"500", 500>>, <<"2147483647", 2147483647>>}
ParseU64(s) == IF \E e \in U64Lexicon : e[1] = s
               THEN Some((CHOOSE e \in U64Lexicon : e[1] = s)[2])
               ELSE NoneV

\* [&str]::join(" ")
RECURSIVE Join(_)
Join(ss) == IF Len(ss) = 0 THEN ""
            ELSE IF Len(ss) = 1 THEN ss[1]
            ELSE ss[1] \o " " \o Join(Tail(ss))

\* slice.get(i) with i counted from 0
Get(ss, i) == IF i + 1 <= Len(ss) THEN Some(ss[i + 1]) ELSE NoneV

(***************************************************************************)
(* parse_command (the command translator).                                 *)
(***************************************************************************)
\* one iteration of the flag loop of the snapshot arm, i counted from 0
SnapshotArg(obj, rest, i) ==
    LET arg == rest[i + 1]
        nxt == Get(rest, i + 1)
    IN  IF arg \in {"-i", "--interactive"} THEN ObjInsert(obj, "interactive", JBool(TRUE))
        ELSE IF arg \in {"-c", "--compact"} THEN ObjInsert(obj, "compact", JBool(TRUE))
        ELSE IF arg \in {"-d", "--depth"} THEN
            IF nxt.some /\ ParseI32(nxt.v).some
            THEN ObjInsert(obj, "maxDepth", JNum(ParseI32(nxt.v).v))
            ELSE obj
        ELSE IF arg \in {"-s", "--selector"} THEN
            IF nxt.some THEN ObjInsert(obj, "selector", JStr(nxt.v)) ELSE obj
        ELSE obj

RECURSIVE SnapshotLoop(_, _, _)
SnapshotLoop(obj, rest, i) ==
    IF i >= Len(rest) THEN obj
    ELSE SnapshotLoop(SnapshotArg(obj, rest, i), rest, i + 1)

\* "type" sent under the action of the arm above it
BaseCopied(id, action) ==
    [k \in {"id", "action"} |->
        IF k = "id" THEN JStr(id) ELSE JStr(IF action = "type" THEN "fill" ELSE action)]

\* json!({ "id": id, "action": <action> })
Base(id, action) == [k \in {"id", "action"} |-> IF k = "id" THEN JStr(id) ELSE JStr(action)]

parse_command(args, id) ==
    IF Len(args) = 0 THEN NoneV
    ELSE
    LET cmd == args[1]
        rest == Tail(args)
        r0 == Get(rest, 0)
        r1 == Get(rest, 1)
    IN  CASE cmd \in {"open", "goto", "navigate"} ->
               IF ~r0.some THEN NoneV
               ELSE LET url == IF StartsWith(r0.v, "http") THEN r0.v
                               ELSE "https://" \o r0.v
                    IN  Some(ObjInsert(Base(id, "navigate"), "url", JStr(url)))
          [] cmd = "click" ->
               IF ~r0.some THEN NoneV
               ELSE Some(ObjInsert(Base(id, "click"), "selector", JStr(r0.v)))
          [] cmd = "fill" ->
               IF ~r0.some THEN NoneV
               ELSE Some(ObjInsert(ObjInsert(Base(id, "fill"), "selector", JStr(r0.v)),
                                   "value", JStr(Join(Tail(rest)))))
          [] cmd = "type" ->
               IF ~r0.some THEN NoneV
               ELSE Some(ObjInsert(ObjInsert(Base(id, "type"), "selector", JStr(r0.v)),
                                   "text", JStr(Join(Tail(rest)))))
          [] cmd = "hover" ->
               IF ~r0.some THEN NoneV
               ELSE Some(ObjInsert(Base(id, "hover"), "selector", JStr(r0.v)))
          [] cmd = "snapshot" -> Some(SnapshotLoop(Base(id, "snapshot"), rest, 0))
          [] cmd = "screenshot" ->
               Some(ObjInsert(Base(id, "screenshot"), "path",
                              IF r0.some THEN JStr(r0.v) ELSE JNull))
          [] cmd \in {"close", "quit", "exit"} -> Some(Base(id, "close"))
          [] cmd = "get" ->
               IF r0.some /\ r0.v = "text" THEN
                   IF ~r1.some THEN NoneV
                   ELSE Some(ObjInsert(Base(id, "gettext"), "selector", JStr(r1.v)))
               ELSE IF r0.some /\ r0.v = "url" THEN Some(Base(id, "url"))
               ELSE IF r0.some /\ r0.v = "title" THEN Some(Base(id, "title"))
               ELSE NoneV
          [] cmd = "press" ->
               IF ~r0.some THEN NoneV
               ELSE Some(ObjInsert(Base(id, "press"), "key", JStr(r0.v)))
          [] cmd = "wait" ->
               IF r0.some THEN
                   IF ParseU64(r0.v).some
                   THEN Some(ObjInsert(Base(id, "wait"), "timeout", JNum(ParseU64(r0.v).v)))
                   ELSE Some(ObjInsert(Base(id, "wait"), "selector", JStr(r0.v)))
               ELSE NoneV
          [] cmd = "back" -> Some(Base(id, "back"))
          [] cmd = "forward" -> Some(Base(id, "forward"))
          [] cmd = "reload" -> Some(Base(id, "reload"))
          [] cmd = "eval" -> Some(ObjInsert(Base(id, "evaluate"), "script", JStr(Join(rest))))
          [] OTHER -> NoneV


(***************************************************************************)
(* State.                                                                  *)
(***************************************************************************)
VARIABLES
    clients,    \* the CLI invocations (processes running main) of the session
    cl,         \* cl[c]: the locals of invocation c and what it has done so far
    proc,       \* proc[p]: the process table, by PID
    pidFile,    \* <tmp>/agent-browser-<session>.pid
    sockFile,   \* whether <tmp>/agent-browser-<session>.sock exists
    listener,   \* PID of the process that bound the socket at that path, 0 if none
    conn,       \* conn[c]: the stream of invocation c, once connected
    tokens,     \* SpecParse: the argument of parse_command
    reqId,      \* SpecParse: the value gen_id returns
    request,    \* SpecParse: the value parse_command returned
    ppc,        \* SpecParse: "call" before, "ret" after the call
    tpc,        \* SpecPoll, SpecSend: where the invocation is
    ti,         \* SpecPoll: polls done, the loop variable of line 90
    tnow,       \* SpecPoll: ticks since the daemon was spawned
    twake,      \* SpecPoll: the tick at which thread::sleep returns
    tsock,      \* SpecPoll: whether the socket path exists
    tmade,      \* SpecPoll: the tick at which the daemon created it, -1 before
    tidle,      \* SpecSend: ticks the read in progress has waited
    twire,      \* SpecSend: what has arrived and is not read yet
    tbuf,       \* SpecSend: response_line
    teof,       \* SpecSend: the daemon has closed the connection
    tres,       \* SpecSend: what send_command returned
    jpc,        \* SpecJson: "format", "decode", "done"
    jmsg,       \* SpecJson: the error message e, a sequence of characters
    jdoc,       \* SpecJson: the document written to standard output
    jdec        \* SpecJson: what a JSON decoder makes of it

sysVars == <<clients, cl, proc, pidFile, sockFile, listener, conn>>
parseVars == <<tokens, reqId, request, ppc>>
timedVars == <<tpc, ti, tnow, twake, tsock, tmade, tidle, twire, tbuf, teof, tres>>
jsonVars == <<jpc, jmsg, jdoc, jdec>>
nonSysVars == <<parseVars, timedVars, jsonVars>>
vars == <<sysVars, parseVars, timedVars, jsonVars>>

Pids == 1..(NumClients + 1)
\* the daemon spawned by invocation c
DaemonPid(c) == c + 1
\* gen_id: "r" followed by the microsecond clock modulo 1000000
Ids == {"r0", "r999999"}
\* the one main draws in the system specifications
MainIds == {"r0"}

Absent == [exists |-> FALSE]
File(text) == [exists |-> TRUE, text |-> text]
\* what a daemon writes to the PID file
PidText(p) == DecStr[p + 1]

NoConn == [peer |-> 0, wire |-> "empty", line |-> NoneV, eof |-> FALSE]

(***************************************************************************)
(* Response, and what the daemon may put on a line.                        *)
(***************************************************************************)
Response(success, data, error) == [success |-> success, data |-> data, error |-> error]

JObj(o) == [t |-> "obj", o |-> o]
PageData == JObj([k \in {"url", "title"} |->
                    IF k = "url" THEN JStr("https://a.com") ELSE JStr("A")])

\* serde_json::from_str::<Response>: a Response, or the text of the error
Parsed(resp) == [valid |-> TRUE, resp |-> resp]
Unparsed(msg) == [valid |-> FALSE, msg |-> msg]

Lines == {Parsed(Response(TRUE, Some(PageData), NoneV)),
          Parsed(Response(TRUE, NoneV, NoneV)),
          Parsed(Response(FALSE, NoneV, Some("Element not found"))),
          Parsed(Response(FALSE, NoneV, NoneV)),
          Unparsed("invalid type: string \"yes\", expected a boolean at line 1 column 16")}
EmptyLine == Unparsed("EOF while parsing a value at line 1 column 0")

(***************************************************************************)
(* main: argument handling (lines 398-420).                                *)
(***************************************************************************)
IsJson(a) == a = "--json"
IsHelp(a) == a = "--help" \/ a = "-h"
IsWithDeps(a) == a = "--with-deps" \/ a = "-d"
NotLong(a) == ~StartsWith(a, "--")

json_mode(args) == \E k \in 1..Len(args) : IsJson(args[k])
clean_args(args) == SelectSeq(args, NotLong)

Start(argv) ==
    [pc |-> "main", argv |-> argv, json |-> FALSE, cmd |-> NoneV,
     pidSeen |-> "unread", pid |-> 0, running |-> FALSE, sockSeen |-> NoneV,
     fast |-> FALSE, ensured |-> FALSE, buf |-> "empty", resp |-> NoneV,
     err |-> "", exit |-> 0 - 1, out |-> <<>>, errOut |-> <<>>,
     translated |-> FALSE, nPid |-> 0, nKill |-> 0, nSock |-> 0, nLocate |-> 0,
     nSpawn |-> 0, nConnect |-> 0, nWrite |-> 0, nRead |-> 0]

\* the error arms of main (lines 422-429 and 439-446)
Fail(r, e) ==
    [r EXCEPT !.pc = "done", !.exit = 1, !.err = e,
              !.out = IF r.json THEN Append(@, [kind |-> "synthetic", msg |-> e]) ELSE @,
              !.errOut = IF r.json THEN @ ELSE Append(@, e)]

\* the None arm falling through to ensure_daemon
UnknownFallsThrough(r) == [r EXCEPT !.pc = "pidfile"]

\* the None arm of the match on parse_command (lines 416-419)
UnknownCommand(r) ==
    [r EXCEPT !.pc = "done", !.exit = 1, !.err = "Unknown command",
              !.errOut = Append(@, "Unknown command")]

Help(r) == [r EXCEPT !.pc = "done", !.exit = 0, !.out = Append(@, [kind |-> "help"])]

Main(c) ==
    /\ cl[c].pc = "main"
    /\ LET args == cl[c].argv
           clean == clean_args(args)
           r == [cl[c] EXCEPT !.json = json_mode(args)]
       IN  IF Len(clean) = 0 \/ (\E k \in 1..Len(args) : IsHelp(args[k]))
           THEN cl' = [cl EXCEPT ![c] = Help(r)]
           ELSE IF clean[1] = "install"
           THEN cl' = [cl EXCEPT ![c] = [r EXCEPT !.pc = "install"]]
           ELSE \E id \in MainIds :
                LET cmd == parse_command(clean, id)
                    t == [r EXCEPT !.translated = TRUE, !.cmd = cmd]
                IN  cl' = [cl EXCEPT ![c] = IF cmd.some
                                            THEN [t EXCEPT !.pc = "pidfile"]
                                            ELSE UnknownCommand(t)]
    /\ UNCHANGED <<clients, proc, pidFile, sockFile, listener, conn, nonSysVars>>

\* run_install: shell commands; it exits 1 when one of them fails
RunInstall(c) ==
    /\ cl[c].pc = "install"
    /\ \E ok \in BOOLEAN :
         cl' = [cl EXCEPT ![c] = [@ EXCEPT !.pc = "done",
                                           !.exit = IF ok THEN 0 ELSE 1,
                                           !.out = Append(@, [kind |-> "install"])]]
    /\ UNCHANGED <<clients, proc, pidFile, sockFile, listener, conn, nonSysVars>>


(***************************************************************************)
(* is_daemon_running and ensure_daemon (lines 39-98).                      *)
(***************************************************************************)
\* str::trim on the texts of the model: a trailing newline is dropped
Trim(s) == IF \E e \in I32Lexicon : s = e[1] \o "\n"
           THEN (CHOOSE e \in I32Lexicon : s = e[1] \o "\n")[1]
           ELSE s

\* libc::kill(pid, 0): 0 when a signal could be sent, -1 (ESRCH, EPERM) when not.
\* pid 0 names the caller's process group and a negative pid a set of processes
\* that includes the invoking shell: both can be signalled.
Kill0(pid) ==
    IF pid <= 0 THEN 0
    ELSE IF pid \in Pids /\ proc[pid] \in {"up", "other"} THEN 0
    ELSE 0 - 1

\* the condition with either operand enough
ReadyEither(running, sockExists) == running \/ sockExists

\* line 58: is_daemon_running() && socket_path.exists()
Ready(running, sockExists) == running /\ sockExists

EnsureOk(r) == [r EXCEPT !.pc = "connect", !.ensured = TRUE]

\* line 58 once is_daemon_running has returned: the right operand is evaluated
\* only when the left one does not decide the condition
AfterRunning(r, running) ==
    LET t == [r EXCEPT !.running = running]
    IN  IF Ready(running, TRUE) = Ready(running, FALSE)
        THEN IF Ready(running, TRUE)
             THEN [EnsureOk(t) EXCEPT !.fast = TRUE]
             ELSE [t EXCEPT !.pc = "locate"]
        ELSE [t EXCEPT !.pc = "sockstat"]

\* lines 40-45: pid_path.exists(), read_to_string, trim, parse::<i32>
PidFileRead(c) ==
    /\ cl[c].pc = "pidfile"
    /\ LET pid == IF pidFile.exists THEN ParseI32(Trim(pidFile.text)) ELSE NoneV
           r == [cl[c] EXCEPT !.nPid = @ + 1,
                              !.pidSeen = IF ~pidFile.exists THEN "absent"
                                          ELSE IF pid.some THEN "pid" ELSE "unparseable"]
       IN  cl' = [cl EXCEPT ![c] = IF pid.some
                                   THEN [r EXCEPT !.pc = "kill", !.pid = pid.v]
                                   ELSE AfterRunning(r, FALSE)]
    /\ UNCHANGED <<clients, proc, pidFile, sockFile, listener, conn, nonSysVars>>

\* line 48: libc::kill(pid, 0) == 0
Probe(c) ==
    /\ cl[c].pc = "kill"
    /\ LET k == Kill0(cl[c].pid)
           r == [cl[c] EXCEPT !.nKill = @ + 1, !.pid = 0]
       IN  cl' = [cl EXCEPT ![c] = AfterRunning(r, k = 0)]
    /\ UNCHANGED <<clients, proc, pidFile, sockFile, listener, conn, nonSysVars>>

\* line 58, right operand: socket_path.exists()
SockStat(c) ==
    /\ cl[c].pc = "sockstat"
    /\ LET r == [cl[c] EXCEPT !.nSock = @ + 1, !.sockSeen = Some(sockFile)]
       IN  cl' = [cl EXCEPT ![c] = IF Ready(r.running, sockFile)
                                   THEN [EnsureOk(r) EXCEPT !.fast = TRUE]
                                   ELSE [r EXCEPT !.pc = "locate"]]
    /\ UNCHANGED <<clients, proc, pidFile, sockFile, listener, conn, nonSysVars>>

\* lines 63-75: current_exe, then the first existing candidate of daemon_paths;
\* nothing in the model creates or removes daemon.js, so whether a candidate
\* exists is drawn when it is looked for
Locate(c) ==
    /\ cl[c].pc = "locate"
    /\ LET r == [cl[c] EXCEPT !.nLocate = @ + 1]
       IN  \E exeOk, daemonJs \in BOOLEAN :
             cl' = [cl EXCEPT ![c] =
                      IF ~exeOk THEN Fail(r, "No such file or directory (os error 2)")
                      ELSE IF ~daemonJs
                      THEN Fail(r, "Daemon not found. Run from project directory or ensure daemon.js is alongside binary.")
                      ELSE [r EXCEPT !.pc = "spawn"]]
    /\ UNCHANGED <<clients, proc, pidFile, sockFile, listener, conn, nonSysVars>>

\* the Err arm of spawn trying again
SpawnRetried(r) == [r EXCEPT !.pc = "spawn"]

\* the Err arm of spawn (line 87)
SpawnFailed(r) == Fail(r, "Failed to start daemon: No such file or directory (os error 2)")

\* lines 78-87: Command::new("node") ... spawn()
Spawn(c) ==
    /\ cl[c].pc = "spawn"
    /\ LET r == [cl[c] EXCEPT !.nSpawn = @ + 1]
       IN  \E ok \in BOOLEAN :
             IF ok
             THEN /\ cl' = [cl EXCEPT ![c] = [r EXCEPT !.pc = "poll"]]
                  /\ proc' = [proc EXCEPT ![DaemonPid(c)] = "up"]
             ELSE /\ cl' = [cl EXCEPT ![c] = SpawnFailed(r)]
                  /\ proc' = proc
    /\ UNCHANGED <<clients, pidFile, sockFile, listener, conn, nonSysVars>>

\* lines 90-95: a poll of the readiness loop finds the socket.  The system
\* specifications have no clock: the 50 polls, 100 ms apart, are summed up as
\* "the socket is seen while the loop runs" and "the loop ends without having
\* seen it".  SpecPoll has the loop itself, poll by poll.
Poll(c) ==
    /\ cl[c].pc = "poll"
    /\ sockFile
    /\ cl' = [cl EXCEPT ![c] = EnsureOk(@)]
    /\ UNCHANGED <<clients, proc, pidFile, sockFile, listener, conn, nonSysVars>>

\* the loop ended without the socket and the invocation goes on to send
PollTimeoutIgnored(c) ==
    /\ cl[c].pc = "poll"
    /\ ~sockFile
    /\ cl' = [cl EXCEPT ![c] = [@ EXCEPT !.pc = "connect"]]
    /\ UNCHANGED <<clients, proc, pidFile, sockFile, listener, conn, nonSysVars>>

\* line 97: the loop ended and no poll saw the socket
PollTimeout(c) ==
    /\ cl[c].pc = "poll"
    /\ ~sockFile
    /\ cl' = [cl EXCEPT ![c] = Fail(@, "Daemon failed to start")]
    /\ UNCHANGED <<clients, proc, pidFile, sockFile, listener, conn, nonSysVars>>

(***************************************************************************)
(* send_command (lines 100-121).  The stream lives from connect to the     *)
(* return of send_command, which drops it: conn[c] is NoConn outside.      *)
(***************************************************************************)
\* connect(2) taken to succeed whenever the path exists
AcceptsAnyPath == sockFile

\* connect(2) on the socket path: accepted when a live process listens on it
Accepts == sockFile /\ listener # 0 /\ proc[listener] = "up"

\* connect that removes the socket file when nothing accepts on it
ConnectUnlinksStale(c) ==
    /\ cl[c].pc = "connect"
    /\ LET r == [cl[c] EXCEPT !.nConnect = @ + 1]
       IN  IF Accepts
           THEN /\ cl' = [cl EXCEPT ![c] = [r EXCEPT !.pc = "write"]]
                /\ conn' = [conn EXCEPT ![c] = [NoConn EXCEPT !.peer = listener]]
                /\ sockFile' = sockFile
           ELSE /\ cl' = [cl EXCEPT ![c] =
                            Fail(r, "Failed to connect: Connection refused (os error 111)")]
                /\ conn' = conn
                /\ sockFile' = FALSE
    /\ UNCHANGED <<clients, proc, pidFile, listener, nonSysVars>>

\* lines 101-106: UnixStream::connect and the two timeouts
Connect(c) ==
    /\ cl[c].pc = "connect"
    /\ LET r == [cl[c] EXCEPT !.nConnect = @ + 1]
       IN  IF Accepts
           THEN /\ cl' = [cl EXCEPT ![c] = [r EXCEPT !.pc = "write"]]
                /\ conn' = [conn EXCEPT ![c] = [NoConn EXCEPT !.peer = listener]]
           ELSE /\ cl' = [cl EXCEPT ![c] =
                            Fail(r, "Failed to connect: Connection refused (os error 111)")]
                /\ conn' = conn
    /\ UNCHANGED <<clients, proc, pidFile, sockFile, listener, nonSysVars>>

\* the peer has closed its end, or is gone
PeerClosed(c) == conn[c].eof \/ proc[conn[c].peer] # "up"

\* lines 108-112: the request line is written with write_all
Write(c) ==
    /\ cl[c].pc = "write"
    /\ LET r == [cl[c] EXCEPT !.nWrite = @ + 1]
       IN  IF PeerClosed(c)
           THEN /\ cl' = [cl EXCEPT ![c] =
                            Fail(r, "Failed to send: Broken pipe (os error 32)")]
                /\ conn' = [conn EXCEPT ![c] = NoConn]
           ELSE /\ cl' = [cl EXCEPT ![c] = [r EXCEPT !.pc = "read"]]
                /\ conn' = conn
    /\ UNCHANGED <<clients, proc, pidFile, sockFile, listener, nonSysVars>>

\* lines 119-120: serde_json::from_str of the line read
FromStr(r, line) ==
    IF line.valid
    THEN [r EXCEPT !.pc = "render", !.resp = Some(line.resp)]
    ELSE Fail(r, "Invalid response: " \o line.msg)

\* line 116, read_line: bytes without a newline are appended and it reads on
ReadChunk(c) ==
    /\ cl[c].pc = "read"
    /\ conn[c].wire = "bytes"
    /\ cl' = [cl EXCEPT ![c] = [@ EXCEPT !.buf = "partial"]]
    /\ conn' = [conn EXCEPT ![c] = [@ EXCEPT !.wire = "empty"]]
    /\ UNCHANGED <<clients, proc, pidFile, sockFile, listener, nonSysVars>>

\* line 116, read_line: the newline arrives and the line is returned
ReadLine(c) ==
    /\ cl[c].pc = "read"
    /\ conn[c].wire = "line"
    /\ cl' = [cl EXCEPT ![c] = FromStr([@ EXCEPT !.nRead = @ + 1, !.buf = "line"],
                                       conn[c].line.v)]
    /\ conn' = [conn EXCEPT ![c] = NoConn]
    /\ UNCHANGED <<clients, proc, pidFile, sockFile, listener, nonSysVars>>

\* line 116, read_line: end of file; what was read so far is returned as the line
ReadEof(c) ==
    /\ cl[c].pc = "read"
    /\ conn[c].wire = "empty"
    /\ PeerClosed(c)
    /\ LET r == [cl[c] EXCEPT !.nRead = @ + 1]
       IN  \E line \in IF cl[c].buf = "empty" THEN {EmptyLine} ELSE Lines :
             cl' = [cl EXCEPT ![c] = FromStr(r, line)]
    /\ conn' = [conn EXCEPT ![c] = NoConn]
    /\ UNCHANGED <<clients, proc, pidFile, sockFile, listener, nonSysVars>>

\* line 116, read_line: no byte arrives within the read timeout of 30 s
ReadTimeout(c) ==
    /\ cl[c].pc = "read"
    /\ conn[c].wire = "empty"
    /\ ~PeerClosed(c)
    /\ cl' = [cl EXCEPT ![c] =
                Fail([@ EXCEPT !.nRead = @ + 1],
                     "Failed to read: Resource temporarily unavailable (os error 11)")]
    /\ conn' = [conn EXCEPT ![c] = NoConn]
    /\ UNCHANGED <<clients, proc, pidFile, sockFile, listener, nonSysVars>>

(***************************************************************************)
(* print_response (lines 205-248) and the Ok arm of main (lines 432-438).  *)
(***************************************************************************)
\* data.get(key).and_then(|v| v.as_str())
GetStr(data, key) ==
    IF data.t = "obj" /\ key \in DOMAIN data.o /\ data.o[key].t = "str"
    THEN Some(data.o[key].s)
    ELSE NoneV
\* data.get(key)
Has(data, key) == data.t = "obj" /\ key \in DOMAIN data.o

\* lines 216-247: the branch taken and the lines printed
Human(data) ==
    IF GetStr(data, "url").some THEN
        IF GetStr(data, "title").some
        THEN [branch |-> "url+title",
              lines |-> <<GetStr(data, "title").v, GetStr(data, "url").v>>]
        ELSE [branch |-> "url", lines |-> <<GetStr(data, "url").v>>]
    ELSE IF GetStr(data, "snapshot").some
    THEN [branch |-> "snapshot", lines |-> <<GetStr(data, "snapshot").v>>]
    ELSE IF GetStr(data, "title").some
    THEN [branch |-> "title", lines |-> <<GetStr(data, "title").v>>]
    ELSE IF GetStr(data, "text").some
    THEN [branch |-> "text", lines |-> <<GetStr(data, "text").v>>]
    ELSE IF Has(data, "result")
    THEN [branch |-> "result", lines |-> <<"pretty(result)">>]
    ELSE IF Has(data, "closed")
    THEN [branch |-> "closed", lines |-> <<"Browser closed">>]
    ELSE [branch |-> "done", lines |-> <<"Done">>]

\* the exit status without the test of lines 435-437
ExitCodeIgnored(success) == 0

\* lines 433-437: the exit status once print_response has returned
ExitCode(success) == IF success THEN 0 ELSE 1

Render(c) ==
    /\ cl[c].pc = "render"
    /\ LET r == cl[c]
           resp == r.resp.v
       IN  cl' = [cl EXCEPT ![c] =
             IF r.json
             THEN [r EXCEPT !.pc = "done", !.exit = ExitCode(resp.success),
                            !.out = Append(@, [kind |-> "response", resp |-> resp])]
             ELSE IF ~resp.success
             THEN [r EXCEPT !.pc = "done", !.exit = 1,
                            !.errOut = Append(@, IF resp.error.some THEN resp.error.v
                                                 ELSE "Unknown error")]
             ELSE [r EXCEPT !.pc = "done", !.exit = ExitCode(resp.success),
                            !.out = IF resp.data.some
                                    THEN Append(@, [kind |-> "human",
                                                    text |-> Human(resp.data.v)])
                                    ELSE @]]
    /\ UNCHANGED <<clients, proc, pidFile, sockFile, listener, conn, nonSysVars>>


(***************************************************************************)
(* The environment: daemon processes, which own the PID file and the       *)
(* socket, and the other processes of the machine.                         *)
(***************************************************************************)
\* a daemon binds the session socket unless a live daemon holds it
DaemonBind(p) ==
    /\ proc[p] = "up"
    /\ listener # p
    /\ ~Accepts
    /\ sockFile' = TRUE
    /\ listener' = p
    /\ UNCHANGED <<clients, cl, proc, pidFile, conn, nonSysVars>>

\* a daemon records its PID
DaemonWritePid(p) ==
    /\ proc[p] = "up"
    /\ pidFile # File(PidText(p))
    /\ pidFile' = File(PidText(p))
    /\ UNCHANGED <<clients, cl, proc, sockFile, listener, conn, nonSysVars>>

\* a daemon ends: it removes its files when it shuts down, not when it crashes
DaemonExit(p) ==
    /\ proc[p] = "up"
    /\ proc' = [proc EXCEPT ![p] = "none"]
    /\ \E clean \in BOOLEAN :
         IF clean
         THEN /\ sockFile' = IF listener = p THEN FALSE ELSE sockFile
              /\ listener' = IF listener = p THEN 0 ELSE listener
              /\ pidFile' = IF pidFile = File(PidText(p)) THEN Absent ELSE pidFile
         ELSE UNCHANGED <<sockFile, listener, pidFile>>
    /\ UNCHANGED <<clients, cl, conn, nonSysVars>>

\* a process that is no daemon of the session ends
ProcessGone(p) ==
    /\ proc[p] \in {"other", "foreign"}
    /\ proc' = [proc EXCEPT ![p] = "none"]
    /\ UNCHANGED <<clients, cl, pidFile, sockFile, listener, conn, nonSysVars>>

\* the daemon sends bytes that hold no newline
DaemonSendBytes(c) ==
    /\ conn[c].peer # 0
    /\ ~PeerClosed(c)
    /\ conn[c].wire = "empty"
    /\ conn' = [conn EXCEPT ![c] = [@ EXCEPT !.wire = "bytes"]]
    /\ UNCHANGED <<clients, cl, proc, pidFile, sockFile, listener, nonSysVars>>

\* the daemon sends the rest of a line and its newline
DaemonSendLine(c) ==
    /\ conn[c].peer # 0
    /\ ~PeerClosed(c)
    /\ conn[c].wire # "line"
    /\ \E line \in Lines :
         conn' = [conn EXCEPT ![c] = [@ EXCEPT !.wire = "line", !.line = Some(line)]]
    /\ UNCHANGED <<clients, cl, proc, pidFile, sockFile, listener, nonSysVars>>

\* the daemon closes the connection
DaemonClose(c) ==
    /\ conn[c].peer # 0
    /\ ~PeerClosed(c)
    /\ conn' = [conn EXCEPT ![c] = [@ EXCEPT !.eof = TRUE]]
    /\ UNCHANGED <<clients, cl, proc, pidFile, sockFile, listener, nonSysVars>>

(***************************************************************************)
(* Specifications.                                                         *)
(***************************************************************************)
\* command lines of one invocation
CmdLines == {<<"open", "a.com">>, <<"--json", "click", "@e2">>,
             <<"frobnicate">>, <<"frobnicate", "--json">>, <<"click", "--json">>,
             <<"frobnicate", "--help">>, <<"-h">>, <<>>, <<"--json">>,
             <<"install">>, <<"install", "--with-deps">>}
\* command lines of the concurrent invocations
RaceCmdLines == {<<"open", "a.com">>}

\* the files and processes an invocation may find: no PID file, one that names
\* no process, one that names PID 1, which is gone, a daemon, a process of the
\* same user, or the process of another user; the socket absent, left behind
\* by a dead daemon, or bound by the live one
InitEnv ==
    /\ proc \in {f \in [Pids -> {"none", "up", "other", "foreign"}] :
                   \A p \in Pids : p # 1 => f[p] = "none"}
    /\ pidFile \in {Absent, File("abc"), File("1\n")}
    /\ sockFile \in BOOLEAN
    /\ listener \in {0} \cup (IF sockFile /\ proc[1] = "up" THEN {1} ELSE {})

InitParseIdle ==
    /\ tokens = <<>>
    /\ reqId = "r0"
    /\ request = NoneV
    /\ ppc = "off"

InitTimedIdle ==
    /\ tpc = "off"
    /\ ti = 0
    /\ tnow = 0
    /\ twake = 0
    /\ tsock = FALSE
    /\ tmade = 0 - 1
    /\ tidle = 0
    /\ twire = "empty"
    /\ tbuf = "empty"
    /\ teof = FALSE
    /\ tres = ""

InitJsonIdle ==
    /\ jpc = "off"
    /\ jmsg = <<>>
    /\ jdoc = <<>>
    /\ jdec = NoneV

InitOthersIdle == InitParseIdle /\ InitTimedIdle /\ InitJsonIdle

Init ==
    /\ clients = {1}
    /\ cl \in [clients -> {Start(a) : a \in CmdLines}]
    /\ conn = [c \in clients |-> NoConn]
    /\ InitEnv
    /\ InitOthersIdle

Client(c) ==
    \/ Main(c)
    \/ RunInstall(c)
    \/ PidFileRead(c)
    \/ Probe(c)
    \/ SockStat(c)
    \/ Locate(c)
    \/ Spawn(c)
    \/ Poll(c)
    \/ PollTimeout(c)
    \/ Connect(c)
    \/ Write(c)
    \/ ReadChunk(c)
    \/ ReadLine(c)
    \/ ReadEof(c)
    \/ ReadTimeout(c)
    \/ Render(c)

Env ==
    \/ \E p \in Pids : DaemonBind(p)
    \/ \E p \in Pids : DaemonWritePid(p)
    \/ \E p \in Pids : DaemonExit(p)
    \/ \E p \in Pids : ProcessGone(p)
    \/ \E c \in clients : DaemonSendBytes(c)
    \/ \E c \in clients : DaemonSendLine(c)
    \/ \E c \in clients : DaemonClose(c)

Next == (\E c \in clients : Client(c)) \/ Env

\* one invocation in an arbitrary environment
Spec == Init /\ [][Next]_vars

\* the concurrent invocations, each followed up to the request it writes: what
\* an invocation does after that changes its own locals and stream only
ClientToWrite(c) ==
    \/ Main(c)
    \/ PidFileRead(c)
    \/ Probe(c)
    \/ SockStat(c)
    \/ Locate(c)
    \/ Spawn(c)
    \/ Poll(c)
    \/ PollTimeout(c)
    \/ Connect(c)
    \/ Write(c)

EnvRace ==
    \/ \E p \in Pids : DaemonBind(p)
    \/ \E p \in Pids : DaemonWritePid(p)
    \/ \E p \in Pids : DaemonExit(p)

NextRace == (\E c \in clients : ClientToWrite(c)) \/ EnvRace

\* the PID file and the socket absent, stale (PID 1 is gone) or live (PID 1 is
\* a daemon that has recorded its PID and listens on the socket)
InitRace ==
    /\ clients = 1..NumClients
    /\ cl \in [clients -> {Start(a) : a \in RaceCmdLines}]
    /\ conn = [c \in clients |-> NoConn]
    /\ InitEnv
    /\ proc[1] \in {"none", "up"}
    /\ pidFile \in {Absent, File("1\n")}
    /\ proc[1] = "up" => (pidFile = File("1\n") /\ listener = 1)
    /\ InitOthersIdle

\* NumClients concurrent invocations of one session
SpecRace == InitRace /\ [][NextRace]_vars


(***************************************************************************)
(* SpecParse: parse_command applied to every token sequence of at most     *)
(* 1 + MaxArgs tokens.                                                     *)
(***************************************************************************)
KnownCommands == {"open", "goto", "navigate", "click", "fill", "type", "hover",
                  "snapshot", "screenshot", "close", "quit", "exit", "get", "press",
                  "wait", "back", "forward", "reload", "eval"}
FirstTokens == KnownCommands \cup {"frobnicate", "install"}
ArgTokens == {"a.com", "https://x.com", "text", "url", "title",
              "-i", "-c", "-d", "3", "-s"}

SeqsUpTo(S, n) == UNION {[1..k -> S] : k \in 0..n}

InitSysIdle ==
    /\ clients = {}
    /\ cl = <<>>
    /\ conn = <<>>
    /\ proc = [p \in Pids |-> "none"]
    /\ pidFile = Absent
    /\ sockFile = FALSE
    /\ listener = 0

InitParse ==
    /\ tokens \in {<<>>} \cup {<<f>> \o r : f \in FirstTokens, r \in SeqsUpTo(ArgTokens, MaxArgs)}
    /\ reqId \in Ids
    /\ request = NoneV
    /\ ppc = "call"
    /\ InitSysIdle
    /\ InitTimedIdle
    /\ InitJsonIdle

\* line 414: parse_command(&clean_args)
Translate ==
    /\ ppc = "call"
    /\ request' = parse_command(tokens, reqId)
    /\ ppc' = "ret"
    /\ UNCHANGED <<tokens, reqId, sysVars, timedVars, jsonVars>>

NextParse == Translate

SpecParse == InitParse /\ [][NextParse]_vars


(***************************************************************************)
(* Claims about the command translator (SpecParse).                        *)
(***************************************************************************)
\* the mapping table of the command translator: the commands of a row, the
\* sub-verb it asks for ("" when it asks for none) and the action it assigns
Row(cmds, sub, action) == [cmds |-> cmds, sub |-> sub, action |-> action]
MappingTable ==
    {Row({"open", "goto", "navigate"}, "", "navigate"),
     Row({"click"}, "", "click"), Row({"fill"}, "", "fill"), Row({"type"}, "", "type"),
     Row({"hover"}, "", "hover"), Row({"snapshot"}, "", "snapshot"),
     Row({"screenshot"}, "", "screenshot"), Row({"close", "quit", "exit"}, "", "close"),
     Row({"get"}, "text", "gettext"), Row({"get"}, "url", "url"),
     Row({"get"}, "title", "title"), Row({"press"}, "", "press"),
     Row({"wait"}, "", "wait"), Row({"back"}, "", "back"),
     Row({"forward"}, "", "forward"), Row({"reload"}, "", "reload"),
     Row({"eval"}, "", "evaluate")}
RowsFor(ts) ==
    {r \in MappingTable :
        /\ ts[1] \in r.cmds
        /\ r.sub # "" => (Len(ts) >= 2 /\ ts[2] = r.sub)}
\* the commands whose first positional argument the translator asks for
NeedsArg == {"open", "goto", "navigate", "click", "fill", "type", "hover", "press", "wait"}
Translated == ppc = "ret" /\ Len(tokens) > 0 /\ tokens[1] \in KnownCommands

\* C10 as stated: for every token sequence whose first token is a known
\* command, translate produces a request, its action is the one the mapping
\* table assigns, and exactly one row of the table applies.
C10_AlwaysARequest ==
    Translated =>
        /\ request.some
        /\ Cardinality(RowsFor(tokens)) = 1
        /\ \A r \in RowsFor(tokens) : request.v["action"] = JStr(r.action)

\* C10 as amended: whenever translate returns a request for a token sequence
\* whose first token is a known command, exactly one row of the table applies
\* and the action of the request is the action of that row; it returns no
\* request only when the first positional argument of a command that asks for
\* one is missing, or when the sub-verb of get is not text, url or title, or
\* get text has no selector.
C10_ActionOfTheRow ==
    Translated =>
        IF request.some
        THEN /\ Cardinality(RowsFor(tokens)) = 1
             /\ \A r \in RowsFor(tokens) : request.v["action"] = JStr(r.action)
             /\ request.v["id"] = JStr(reqId)
        ELSE \/ tokens[1] \in NeedsArg /\ Len(tokens) = 1
             \/ tokens[1] = "get" /\ RowsFor(tokens) = {}
             \/ tokens[1] = "get" /\ tokens[2] = "text" /\ Len(tokens) = 2

C10_Witness ==
    /\ ppc = "ret"
    /\ tokens = <<"type", "a.com", "text">>
    /\ request.some
    /\ request.v["action"] = JStr("type")


(***************************************************************************)
(* Claims about one invocation (Spec) and concurrent invocations           *)
(* (SpecRace).                                                             *)
(***************************************************************************)
Daemons == {p \in Pids : proc[p] = "up"}
ConnectsNow(c) == cl[c].pc = "connect" /\ cl'[c].pc = "write"
WritesNow(c) == cl[c].pc = "write" /\ cl'[c].pc = "read"

Decided(c) == cl[c].pc \notin {"main", "install", "pidfile", "kill", "sockstat"} /\ cl[c].cmd.some

\* C2: ensure_daemon returns success without locating or spawning anything
\* if and only if the PID file held a PID, the liveness probe of that PID
\* succeeded and the socket path existed; otherwise it goes on to locate the
\* daemon.
C2_FastPathIffProbeAndSocket ==
    \A c \in clients :
        Decided(c) =>
            /\ cl[c].fast <=> (/\ cl[c].pidSeen = "pid"
                               /\ cl[c].nKill = 1
                               /\ cl[c].running
                               /\ cl[c].sockSeen = Some(TRUE))
            /\ cl[c].fast => (cl[c].ensured /\ cl[c].nLocate = 0 /\ cl[c].nSpawn = 0)
            /\ ~cl[c].fast => (cl[c].pc = "locate" \/ cl[c].nLocate = 1)
            /\ cl[c].pidSeen \in {"absent", "unparseable"} => (cl[c].nKill = 0 /\ ~cl[c].fast)

C2_Witness ==
    \E c \in clients :
        /\ cl[c].pc = "connect"
        /\ cl[c].fast
        /\ cl[c].sockSeen = Some(TRUE)
        /\ cl[c].nLocate = 0

\* what an invocation does to the daemon and its files
NoContact(c) ==
    /\ cl[c].nPid = 0 /\ cl[c].nKill = 0 /\ cl[c].nSock = 0 /\ cl[c].nLocate = 0
    /\ cl[c].nSpawn = 0 /\ cl[c].nConnect = 0 /\ cl[c].nWrite = 0 /\ cl[c].nRead = 0
    /\ conn[c] = NoConn

\* C5: when the translator returns none, the invocation exits with code 1 and
\* has not read the PID file, probed a process, spawned a daemon or connected.
C5_UnknownCommandNoContact ==
    \A c \in clients :
        (cl[c].translated /\ ~cl[c].cmd.some) =>
            /\ cl[c].pc = "done"
            /\ cl[c].exit = 1
            /\ NoContact(c)

C5_Witness ==
    \E c \in clients :
        /\ cl[c].argv = <<"click", "--json">>
        /\ cl[c].translated /\ ~cl[c].cmd.some
        /\ cl[c].pc = "done"

\* the command was translated, the daemon ensured, the transport succeeded and
\* the response has success=true
AllWentWell(c) ==
    /\ cl[c].cmd.some
    /\ cl[c].ensured
    /\ cl[c].resp.some
    /\ cl[c].resp.v.success

\* C6 as stated: for every invocation the exit code is 0 exactly when the
\* command was translated, the daemon ensured, the transport succeeded and the
\* response has success=true, and 1 otherwise.
C6_ExitCodeEveryInvocation ==
    \A c \in clients :
        cl[c].pc = "done" =>
            /\ cl[c].exit = 0 <=> AllWentWell(c)
            /\ cl[c].exit = 1 <=> ~AllWentWell(c)

\* C6 as amended: for every invocation that reaches the command translator
\* (no help option, a command token, not install), in both modes, the exit
\* code is 0 exactly when the command was translated, the daemon ensured, the
\* transport succeeded and the response has success=true, and 1 otherwise.
C6_ExitCodeOfCommands ==
    \A c \in clients :
        (cl[c].pc = "done" /\ cl[c].translated) =>
            /\ cl[c].exit = 0 <=> AllWentWell(c)
            /\ cl[c].exit = 1 <=> ~AllWentWell(c)

C6_Witness ==
    \E c \in clients :
        /\ cl[c].pc = "done"
        /\ cl[c].json
        /\ cl[c].resp.some
        /\ ~cl[c].resp.v.success
        /\ cl[c].exit = 1

\* C7: with --json, every command invocation writes one machine-readable
\* Response document to standard output, on the unknown-command path too.
C7_JsonOnEveryPath ==
    \A c \in clients :
        (cl[c].pc = "done" /\ cl[c].json /\ cl[c].translated) =>
            /\ Len(cl[c].out) = 1
            /\ cl[c].out[1].kind \in {"response", "synthetic"}

\* C9: within one invocation at most one daemon is spawned, one connection
\* opened, one request written and one response read, and the first
\* supervisor or transport failure ends the invocation: it is reported once
\* and no later step is attempted.
C9_NoRetries ==
    \A c \in clients :
        /\ cl[c].nSpawn <= 1 /\ cl[c].nConnect <= 1
        /\ cl[c].nWrite <= cl[c].nConnect /\ cl[c].nRead <= cl[c].nWrite
        /\ cl[c].nPid <= 1 /\ cl[c].nKill <= 1 /\ cl[c].nSock <= 1 /\ cl[c].nLocate <= 1
        /\ cl[c].err # "" =>
              /\ cl[c].pc = "done"
              /\ Len(cl[c].out) + Len(cl[c].errOut) = 1
              /\ ~cl[c].ensured => cl[c].nConnect = 0
              /\ ~cl[c].resp.some
              /\ conn[c] = NoConn

C9_Witness ==
    \E c \in clients :
        /\ cl[c].pc = "done"
        /\ cl[c].err = "Failed to connect: Connection refused (os error 111)"
        /\ cl[c].nSpawn = 1
        /\ cl[c].nConnect = 1
        /\ cl[c].nWrite = 0


(***************************************************************************)
(* SpecPoll: the readiness loop of ensure_daemon (lines 89-97) with a      *)
(* clock, from the moment the daemon is spawned.  A tick is                *)
(* PollIntervalMs / TicksPerPoll milliseconds; a poll takes no time and a  *)
(* sleep takes TicksPerPoll ticks.                                         *)
(***************************************************************************)
\* the polling budget, 50 polls at 100 ms, in ticks
Budget == PollCount * TicksPerPoll

InitPoll ==
    /\ tpc = "poll"
    /\ ti = 0
    /\ tnow = 0
    /\ twake = 0
    /\ tsock = FALSE
    /\ tmade = 0 - 1
    /\ tidle = 0
    /\ twire = "empty"
    /\ tbuf = "empty"
    /\ teof = FALSE
    /\ tres = ""
    /\ InitSysIdle
    /\ InitParseIdle
    /\ InitJsonIdle

\* lines 91-94: one poll, then the return or the sleep
TPoll ==
    /\ tpc = "poll"
    /\ ti < PollCount
    /\ IF tsock
       THEN /\ tpc' = "ret"
            /\ tres' = "Ok"
            /\ twake' = twake
       ELSE /\ tpc' = "sleep"
            /\ tres' = tres
            /\ twake' = tnow + TicksPerPoll
    /\ UNCHANGED <<ti, tnow, tsock, tmade, tidle, twire, tbuf, teof, sysVars, parseVars, jsonVars>>

\* line 94: thread::sleep returns and the loop goes round
TWake ==
    /\ tpc = "sleep"
    /\ tnow = twake
    /\ tpc' = "poll"
    /\ ti' = ti + 1
    /\ UNCHANGED <<tnow, twake, tsock, tmade, tidle, twire, tbuf, teof, tres, sysVars,
                   parseVars, jsonVars>>

\* line 97: the loop is over
TGiveUp ==
    /\ tpc = "poll"
    /\ ti = PollCount
    /\ tpc' = "ret"
    /\ tres' = "Daemon failed to start"
    /\ UNCHANGED <<ti, tnow, twake, tsock, tmade, tidle, twire, tbuf, teof, sysVars,
                   parseVars, jsonVars>>

\* time passes while the invocation sleeps
TTick ==
    /\ tpc = "sleep"
    /\ tnow < twake
    /\ tnow' = tnow + 1
    /\ UNCHANGED <<tpc, ti, twake, tsock, tmade, tidle, twire, tbuf, teof, tres, sysVars,
                   parseVars, jsonVars>>

\* the spawned daemon creates the socket, at any moment
TDaemonListens ==
    /\ tpc \in {"poll", "sleep"}
    /\ ~tsock
    /\ tsock' = TRUE
    /\ tmade' = tnow
    /\ UNCHANGED <<tpc, ti, tnow, twake, tidle, twire, tbuf, teof, tres, sysVars,
                   parseVars, jsonVars>>

NextPoll == TPoll \/ TWake \/ TGiveUp \/ TTick \/ TDaemonListens

SpecPoll == InitPoll /\ [][NextPoll]_vars

\* C3: once the daemon is spawned, ensure_daemon returns success if the
\* socket is created at a delay strictly under the polling budget, and the
\* start-timeout error if it is created after the budget or never.
C3_UnderBudgetSucceeds ==
    tpc = "ret" =>
        /\ (tmade >= 0 /\ tmade < Budget) => tres = "Ok"
        /\ (tmade < 0 \/ tmade >= Budget) => tres = "Daemon failed to start"

(***************************************************************************)
(* SpecSend: send_command from the connected stream on (lines 105-120)     *)
(* with the read timeout.  Each read of read_line waits up to              *)
(* ReadTimeoutSecs for a byte; the wait starts again with every read.      *)
(***************************************************************************)
ReadTimeoutTicks == ReadTimeoutSecs * (1000 \div PollIntervalMs) * TicksPerPoll

InitSend ==
    /\ tpc = "write"
    /\ ti = 0
    /\ tnow = 0
    /\ twake = 0
    /\ tsock = TRUE
    /\ tmade = 0 - 1
    /\ tidle = 0
    /\ twire = "empty"
    /\ tbuf = "empty"
    /\ teof = FALSE
    /\ tres = ""
    /\ InitSysIdle
    /\ InitParseIdle
    /\ InitJsonIdle

\* lines 108-112
TWrite ==
    /\ tpc = "write"
    /\ IF teof
       THEN tpc' = "ret" /\ tres' = "Failed to send"
       ELSE tpc' = "read" /\ tres' = tres
    /\ UNCHANGED <<ti, tnow, twake, tsock, tmade, tidle, twire, tbuf, teof, sysVars,
                   parseVars, jsonVars>>

\* line 116: a read returns bytes without a newline; read_line reads again
TReadChunk ==
    /\ tpc = "read"
    /\ twire = "bytes"
    /\ twire' = "empty"
    /\ tbuf' = "partial"
    /\ tidle' = 0
    /\ UNCHANGED <<tpc, ti, tnow, twake, tsock, tmade, teof, tres, sysVars, parseVars,
                   jsonVars>>

\* lines 116-120: a read returns the newline; the line is parsed
TReadLine ==
    /\ tpc = "read"
    /\ twire = "line"
    /\ twire' = "empty"
    /\ tbuf' = "line"
    /\ tpc' = "ret"
    /\ \E r \in {"Ok", "Invalid response"} : tres' = r
    /\ UNCHANGED <<ti, tnow, twake, tsock, tmade, tidle, teof, sysVars, parseVars, jsonVars>>

\* lines 116-120: a read returns end of file; what was read is parsed
TReadEof ==
    /\ tpc = "read"
    /\ twire = "empty"
    /\ teof
    /\ tpc' = "ret"
    /\ \E r \in IF tbuf = "empty" THEN {"Invalid response"} ELSE {"Ok", "Invalid response"} :
         tres' = r
    /\ UNCHANGED <<ti, tnow, twake, tsock, tmade, tidle, twire, tbuf, teof, sysVars,
                   parseVars, jsonVars>>

\* line 117: a read has waited for the whole read timeout
TReadTimeout ==
    /\ tpc = "read"
    /\ twire = "empty"
    /\ ~teof
    /\ tidle = ReadTimeoutTicks
    /\ tpc' = "ret"
    /\ tres' = "Failed to read"
    /\ UNCHANGED <<ti, tnow, twake, tsock, tmade, tidle, twire, tbuf, teof, sysVars,
                   parseVars, jsonVars>>

\* time passes while a read waits
TWait ==
    /\ tpc = "read"
    /\ twire = "empty"
    /\ ~teof
    /\ tidle < ReadTimeoutTicks
    /\ tidle' = tidle + 1
    /\ UNCHANGED <<tpc, ti, tnow, twake, tsock, tmade, twire, tbuf, teof, tres, sysVars,
                   parseVars, jsonVars>>

\* the daemon sends bytes that hold no newline
TSendBytes ==
    /\ tpc \in {"write", "read"}
    /\ ~teof
    /\ twire = "empty"
    /\ twire' = "bytes"
    /\ UNCHANGED <<tpc, ti, tnow, twake, tsock, tmade, tidle, tbuf, teof, tres, sysVars,
                   parseVars, jsonVars>>

\* the daemon sends a newline
TSendLine ==
    /\ tpc \in {"write", "read"}
    /\ ~teof
    /\ twire # "line"
    /\ twire' = "line"
    /\ UNCHANGED <<tpc, ti, tnow, twake, tsock, tmade, tidle, tbuf, teof, tres, sysVars,
                   parseVars, jsonVars>>

\* the daemon closes the connection
TClose ==
    /\ tpc \in {"write", "read"}
    /\ ~teof
    /\ teof' = TRUE
    /\ UNCHANGED <<tpc, ti, tnow, twake, tsock, tmade, tidle, twire, tbuf, tres, sysVars,
                   parseVars, jsonVars>>

NextSend ==
    \/ TWrite
    \/ TReadChunk
    \/ TReadLine
    \/ TReadEof
    \/ TReadTimeout
    \/ TWait
    \/ TSendBytes
    \/ TSendLine
    \/ TClose

\* the invocation runs whenever it can, and time passes; the daemon is free
SpecSend ==
    /\ InitSend
    /\ [][NextSend]_vars
    /\ WF_vars(TWrite)
    /\ WF_vars(TReadChunk)
    /\ WF_vars(TReadLine)
    /\ WF_vars(TReadEof)
    /\ WF_vars(TReadTimeout)
    /\ WF_vars(TWait)

\* C4: every invocation eventually terminates, whatever the daemon does.
C4_Terminates == <>(tpc = "ret")


(***************************************************************************)
(* SpecJson: the document main writes for an error e in --json mode        *)
(* (lines 424 and 441), read back by a JSON decoder.  A message is a       *)
(* sequence of characters; the fixed parts of the document are tokens.     *)
(***************************************************************************)
Chars == {"a", "n", "\"", "\\"}

\* println!(r#"{{"success":false,"error":"{}"}}"#, e): e is copied as it is
SyntheticHead == <<"{", "\"success\"", ":", "false", ",", "\"error\"", ":", "\"">>
Synthetic(e) == SyntheticHead \o e \o <<"\"", "}">>

\* the character a JSON escape stands for
Unescape(ch) == IF ch = "n" THEN "\n" ELSE ch

\* a JSON string from position i, after its opening quote: the characters it
\* denotes and the position after its closing quote
RECURSIVE ScanString(_, _, _)
ScanString(cs, i, acc) ==
    IF i > Len(cs) THEN NoneV
    ELSE IF cs[i] = "\"" THEN Some([val |-> acc, next |-> i + 1])
    ELSE IF cs[i] = "\\" THEN
        IF i + 1 <= Len(cs) /\ cs[i + 1] \in {"\"", "\\", "n"}
        THEN ScanString(cs, i + 2, Append(acc, Unescape(cs[i + 1])))
        ELSE NoneV
    ELSE ScanString(cs, i + 1, Append(acc, cs[i]))

\* a JSON decoder on a document that starts as the synthetic one does
DecodeSynthetic(doc) ==
    IF Len(doc) < Len(SyntheticHead) \/ SubSeq(doc, 1, Len(SyntheticHead)) # SyntheticHead
    THEN NoneV
    ELSE LET str == ScanString(doc, Len(SyntheticHead) + 1, <<>>)
         IN  IF str.some /\ str.v.next = Len(doc) /\ doc[Len(doc)] = "}"
             THEN Some([success |-> FALSE, error |-> str.v.val])
             ELSE NoneV

InitJson ==
    /\ jpc = "format"
    /\ jmsg \in SeqsUpTo(Chars, MaxMsgLen)
    /\ jdoc = <<>>
    /\ jdec = NoneV
    /\ InitSysIdle
    /\ InitParseIdle
    /\ InitTimedIdle

\* lines 424 and 441
JFormat ==
    /\ jpc = "format"
    /\ jdoc' = Synthetic(jmsg)
    /\ jpc' = "decode"
    /\ UNCHANGED <<jmsg, jdec, sysVars, parseVars, timedVars>>

\* the reader of standard output decodes the document
JDecode ==
    /\ jpc = "decode"
    /\ jdec' = DecodeSynthetic(jdoc)
    /\ jpc' = "done"
    /\ UNCHANGED <<jmsg, jdoc, sysVars, parseVars, timedVars>>

NextJson == JFormat \/ JDecode

SpecJson == InitJson /\ [][NextJson]_vars

\* C8: in --json mode, for every supervisor or transport error and every
\* message text, the document written is a well-formed JSON object of the
\* Response shape with success=false and error equal to the message.
C8_WellFormedErrorDocument ==
    jpc = "done" =>
        /\ jdec.some
        /\ jdec.v.success = FALSE
        /\ jdec.v.error = jmsg


(***************************************************************************)
(* Further claims about the command translator (SpecParse).                *)
(***************************************************************************)
\* the number of positional arguments the CLI surface marks as required after
\* the tokens ts of a known command
RequiredArgs(ts) ==
    IF ts[1] \in {"open", "goto", "navigate", "click", "hover", "press", "wait", "eval"} THEN 1
    ELSE IF ts[1] \in {"fill", "type"} THEN 2
    ELSE IF ts[1] = "get" /\ Len(ts) >= 2 /\ ts[2] = "text" THEN 2
    ELSE 0
ArgumentMissing(ts) ==
    \/ Len(ts) = 0
    \/ ts[1] \notin KnownCommands
    \/ Len(ts) - 1 < RequiredArgs(ts)

\* C11: translate returns none whenever the primary token is unrecognized or
\* a required positional argument is missing: the url of open/goto/navigate,
\* the selector of click/hover/get text, the selector and the text of fill
\* and type, the key of press, the argument of wait, the script of eval.
C11_NoneWhenArgumentMissing ==
    (ppc = "ret" /\ ArgumentMissing(tokens)) => ~request.some

\* the flags of snapshot: those that stand alone and those that take a value
PlainFlags == {"-i", "--interactive", "-c", "--compact"}
ValueFlags == {"-d", "--depth", "-s", "--selector"}
FlagName(t) == CASE t \in {"-i", "--interactive"} -> "interactive"
                 [] t \in {"-c", "--compact"} -> "compact"
                 [] t \in {"-d", "--depth"} -> "maxDepth"
                 [] t \in {"-s", "--selector"} -> "selector"
                 [] OTHER -> ""

\* the tokens after snapshot read from left to right as units: a flag that
\* takes a value together with the token that follows it, any other token alone
RECURSIVE Units(_)
Units(rest) ==
    IF Len(rest) = 0 THEN <<>>
    ELSE IF rest[1] \in ValueFlags /\ Len(rest) >= 2
    THEN <<SubSeq(rest, 1, 2)>> \o Units(SubSeq(rest, 3, Len(rest)))
    ELSE <<(<<rest[1]>>)>> \o Units(Tail(rest))
RECURSIVE Flatten(_)
Flatten(us) == IF Len(us) = 0 THEN <<>> ELSE us[1] \o Flatten(Tail(us))

\* every unit is a flag, with its value when it takes one
FlagsOnly(us) ==
    \A k \in 1..Len(us) :
        \/ us[k][1] \in PlainFlags
        \/ us[k][1] \in ValueFlags /\ Len(us[k]) = 2
\* no flag is given twice
FlagSet(us) ==
    /\ FlagsOnly(us)
    /\ \A j, k \in 1..Len(us) : j # k => FlagName(us[j][1]) # FlagName(us[k][1])
Orders(n) == {f \in [1..n -> 1..n] : \A j, k \in 1..n : j # k => f[j] # f[k]}
SnapshotCall == ppc = "ret" /\ Len(tokens) > 0 /\ tokens[1] = "snapshot"

\* C12: for the snapshot command, every permutation of a set of flags, each
\* flag that takes a value kept together with its value, yields a request with
\* the same fields.
C12_FlagOrderIrrelevant ==
    (SnapshotCall /\ FlagSet(Units(Tail(tokens)))) =>
        LET us == Units(Tail(tokens))
        IN  \A f \in Orders(Len(us)) :
                parse_command(<<"snapshot">> \o Flatten([k \in 1..Len(us) |-> us[f[k]]]), reqId)
                    = request

\* the request of snapshot when each unit is read as one flag
RECURSIVE ConsumeUnits(_, _)
ConsumeUnits(obj, us) ==
    IF Len(us) = 0 THEN obj
    ELSE LET u == us[1]
             o == CASE FlagName(u[1]) \in {"interactive", "compact"} ->
                         ObjInsert(obj, FlagName(u[1]), JBool(TRUE))
                    [] FlagName(u[1]) = "maxDepth" /\ ParseI32(u[2]).some ->
                         ObjInsert(obj, "maxDepth", JNum(ParseI32(u[2]).v))
                    [] FlagName(u[1]) = "selector" ->
                         ObjInsert(obj, "selector", JStr(u[2]))
                    [] OTHER -> obj
         IN  ConsumeUnits(o, Tail(us))

\* C15: in the snapshot command the token following -d/--depth or
\* -s/--selector is consumed as the value of that flag and is not also read
\* as a flag: the request holds the fields of the flags and nothing else.
C15_ValueTokenConsumed ==
    (SnapshotCall /\ FlagsOnly(Units(Tail(tokens)))) =>
        /\ request.some
        /\ request.v = ConsumeUnits(Base(reqId, "snapshot"), Units(Tail(tokens)))


(***************************************************************************)
(* SpecArgs: the argument handling of main (lines 398-420) applied to      *)
(* every command line of at most MaxArgv tokens.                           *)
(***************************************************************************)
CliTokens == {"snapshot", "-i", "--interactive", "-d", "--depth", "3", "--json", "-h"}

InitArgs ==
    /\ clients = {1}
    /\ cl \in [clients -> {Start(a) : a \in SeqsUpTo(CliTokens, MaxArgv)}]
    /\ conn = [c \in clients |-> NoConn]
    /\ proc = [p \in Pids |-> "none"]
    /\ pidFile = Absent
    /\ sockFile = FALSE
    /\ listener = 0
    /\ InitOthersIdle

NextArgs == \E c \in clients : Main(c)

SpecArgs == InitArgs /\ [][NextArgs]_vars

\* the option tokens of the CLI surface that are not for the translator
NotJsonOrHelp(a) == a \notin {"--json", "--help", "-h"}

\* C13: for every command line, the token sequence handed to the command
\* translator is the command line with only the --json and help options
\* removed, so a snapshot invoked with the long forms of its flags sends the
\* request of the same invocation with the short forms.
C13_OnlyJsonAndHelpRemoved ==
    \A c \in clients :
        cl[c].translated =>
            \E id \in MainIds :
                cl[c].cmd = parse_command(SelectSeq(cl[c].argv, NotJsonOrHelp), id)


(***************************************************************************)
(* SpecRender: print_response and the Ok arm of main (lines 205-248 and    *)
(* 432-438) applied to responses with success=true whose data is absent,   *)
(* no object, or an object over the fields print_response looks at.        *)
(***************************************************************************)
DataKeys == {"url", "title", "snapshot", "text", "result", "closed"}
\* a field holds a string or a value of another type
FieldValues == {JStr("v"), JNum(5)}
DataObjects == UNION {[ks -> FieldValues] : ks \in SUBSET DataKeys}
\* serde reads a null or missing data as None
Datas == {NoneV} \cup {Some(JStr("v"))} \cup {Some(JObj(o)) : o \in DataObjects}

\* an invocation that has read the response line of its request
Answered(argv, data) ==
    [Start(argv) EXCEPT !.pc = "render", !.json = json_mode(argv), !.translated = TRUE,
                        !.cmd = parse_command(clean_args(argv), "r0"),
                        !.ensured = TRUE, !.fast = TRUE, !.running = TRUE,
                        !.pidSeen = "pid", !.pid = 1, !.sockSeen = Some(TRUE),
                        !.nPid = 1, !.nKill = 1, !.nSock = 1,
                        !.nConnect = 1, !.nWrite = 1, !.nRead = 1,
                        !.buf = "line", !.resp = Some(Response(TRUE, data, NoneV))]

InitRender ==
    /\ clients = {1}
    /\ cl \in [clients -> {Answered(a, d) : a \in {<<"get", "url">>, <<"get", "url", "--json">>},
                                            d \in Datas}]
    /\ conn = [c \in clients |-> NoConn]
    /\ proc = [p \in Pids |-> IF p = 1 THEN "up" ELSE "none"]
    /\ pidFile = File("1\n")
    /\ sockFile = TRUE
    /\ listener = 1
    /\ InitOthersIdle

NextRender == \E c \in clients : Render(c)

SpecRender == InitRender /\ [][NextRender]_vars

\* the rendering branches in their order of priority and the data each matches
BranchOrder == <<"url+title", "url", "snapshot", "title", "text", "result", "closed", "done">>
IsString(data, key) ==
    data.some /\ data.v.t = "obj" /\ key \in DOMAIN data.v.o /\ data.v.o[key].t = "str"
IsPresent(data, key) == data.some /\ data.v.t = "obj" /\ key \in DOMAIN data.v.o
Matches(data, branch) ==
    CASE branch = "url+title" -> IsString(data, "url") /\ IsString(data, "title")
      [] branch \in {"url", "snapshot", "title", "text"} -> IsString(data, branch)
      [] branch \in {"result", "closed"} -> IsPresent(data, branch)
      [] OTHER -> TRUE
FirstMatch(data) ==
    BranchOrder[CHOOSE k \in 1..Len(BranchOrder) :
                    /\ Matches(data, BranchOrder[k])
                    /\ \A j \in 1..(k - 1) : ~Matches(data, BranchOrder[j])]

\* C14: in human mode, for every response with success=true, whatever its
\* data (absent or null data and fields of unexpected type included), exactly
\* one rendering branch fires, the first that matches in the order url+title,
\* url, snapshot, title, text, result, closed, generic success message.
C14_ExactlyOneBranchFires ==
    \A c \in clients :
        (cl[c].pc = "done" /\ ~cl[c].json /\ cl[c].resp.some /\ cl[c].resp.v.success) =>
            /\ Len(cl[c].out) = 1
            /\ cl[c].out[1].kind = "human"
            /\ cl[c].out[1].text.branch = FirstMatch(cl[c].resp.v.data)


(***************************************************************************)
(* Further claims about one invocation (Spec).                             *)
(***************************************************************************)
\* the errors of send_command by kind
ReceiveFailures == {"Failed to read: Resource temporarily unavailable (os error 11)"}
InvalidResponses == {"Invalid response: " \o l.msg : l \in {u \in Lines \cup {EmptyLine} : ~u.valid}}

\* C16: if the daemon closes the connection before a newline-terminated line
\* has been received (no bytes at all, or a partial line), send reports a
\* receive failure; it returns a Response only when a complete line was read
\* and reports an invalid response only when a complete line fails to parse.
C16_EofBeforeNewlineIsReceiveFailure ==
    \A c \in clients :
        cl[c].nRead = 1 =>
            /\ cl[c].buf # "line" => cl[c].err \in ReceiveFailures
            /\ cl[c].resp.some => cl[c].buf = "line"
            /\ cl[c].err \in InvalidResponses => cl[c].buf = "line"

\* the invocations main hands to run_install
IsInstall(c) ==
    LET clean == clean_args(cl[c].argv)
    IN  /\ Len(clean) > 0
        /\ clean[1] = "install"
        /\ \A k \in 1..Len(cl[c].argv) : ~IsHelp(cl[c].argv[k])
Rendered(c) == \E k \in 1..Len(cl[c].out) : cl[c].out[k].kind \in {"response", "human"}

\* C17: within an invocation the steps happen in the order translate, ensure,
\* send, render: nothing of ensure happens before the command is translated,
\* no connection is opened and no request byte written unless ensure_daemon
\* returned success, the response is read only after the whole request line was
\* written, nothing is rendered before a response was read, and an install
\* invocation never reads the PID file, spawns the daemon or opens the socket.
C17_TranslateEnsureSendRender ==
    \A c \in clients :
        /\ ~NoContact(c) => cl[c].cmd.some
        /\ (cl[c].pc \in {"connect", "write", "read", "render"} \/ cl[c].nConnect > 0
              \/ cl[c].nWrite > 0 \/ conn[c] # NoConn) => cl[c].ensured
        /\ (cl[c].pc \in {"read", "render"} \/ cl[c].nRead > 0) =>
              (cl[c].nWrite = 1 /\ cl[c].nConnect = 1)
        /\ (cl[c].pc = "render" \/ cl[c].resp.some \/ Rendered(c)) => cl[c].nRead = 1
        /\ IsInstall(c) => (NoContact(c) /\ ~cl[c].translated)

C17_Witness ==
    \E c \in clients :
        /\ cl[c].pc = "done"
        /\ Rendered(c)
        /\ cl[c].nSpawn = 1
        /\ cl[c].ensured
        /\ cl[c].nRead = 1

\* a step of an invocation
ClientStep == \E c \in clients : Client(c)

\* C18: no client operation, on any success or failure path, creates, modifies
\* or deletes the PID file or the socket file of the session: a stale socket or
\* a stale PID file is never removed by the client.
C18_ClientLeavesFilesAlone ==
    [][ClientStep => (pidFile' = pidFile /\ sockFile' = sockFile)]_vars

C18_Witness ==
    \E c \in clients :
        /\ cl[c].pc = "done"
        /\ cl[c].err = "Failed to connect: Connection refused (os error 111)"
        /\ cl[c].fast
        /\ sockFile
        /\ ~Accepts
        /\ pidFile = File("1\n")

\* ensure_daemon returns success from its readiness loop
PollSucceeds(c) == cl[c].pc = "poll" /\ cl'[c].ensured

\* C19: if the recorded daemon is dead but a stale socket file from it still
\* exists, ensure_daemon after spawning a new daemon does not return success
\* until the newly spawned daemon has created its socket: whenever it returns
\* success a live daemon is listening on the socket path it checked.
C19_NoSuccessOnStaleSocket ==
    [][\A c \in clients :
          PollSucceeds(c) => (listener = DaemonPid(c) \/ Accepts)]_vars


(***************************************************************************)
(* SpecProbe: line 58 of ensure_daemon, that is is_daemon_running (lines   *)
(* 39-53) and the test of the socket path, for every content of the PID    *)
(* file and every kind of process it may name.                             *)
(***************************************************************************)
PidTexts == {"", "abc", "0", "-1", "1", "1\n", "2\n"}

\* an invocation whose command has been translated (line 420)
Parsed0(argv) ==
    [Start(argv) EXCEPT !.pc = "pidfile", !.json = json_mode(argv), !.translated = TRUE,
                        !.cmd = parse_command(clean_args(argv), "r0")]

InitProbe ==
    /\ clients = {1}
    /\ cl = [c \in clients |-> Parsed0(<<"open", "a.com">>)]
    /\ conn = [c \in clients |-> NoConn]
    /\ proc \in {f \in [Pids -> {"none", "up", "other", "foreign"}] :
                   \A p \in Pids : p > 2 => f[p] = "none"}
    /\ pidFile \in {Absent} \cup {File(t) : t \in PidTexts}
    /\ sockFile \in BOOLEAN
    /\ listener = 0
    /\ InitOthersIdle

NextProbe == \E c \in clients : PidFileRead(c) \/ Probe(c) \/ SockStat(c)

SpecProbe == InitProbe /\ [][NextProbe]_vars

\* the process the PID file names, when its content names a single process
RecordedPid ==
    IF pidFile.exists /\ ParseI32(Trim(pidFile.text)).some /\ ParseI32(Trim(pidFile.text)).v >= 1
    THEN Some(ParseI32(Trim(pidFile.text)).v)
    ELSE NoneV
ProcessExists(pid) == pid \in Pids /\ proc[pid] # "none"
IsDaemonRunningReturned(c) == cl[c].pc \notin {"main", "pidfile", "kill"}

\* C20: is_daemon_running returns true only if the PID file holds the PID of
\* one existing process; for a content that names no single process (empty,
\* non-numeric, zero, negative) it returns false, and it returns true whenever
\* the recorded process exists, even when the client may not signal it.
C20_TrueIffRecordedProcessExists ==
    \A c \in clients :
        IsDaemonRunningReturned(c) =>
            (cl[c].running <=> (RecordedPid.some /\ ProcessExists(RecordedPid.v)))

====
